---- MODULE Spec2Model ----
(***************************************************************************)
(* A model of the ai-health-integrations teaser pipeline:                  *)
(*   - src/src/events/queue.ts      the in-memory deduplicating queue      *)
(*   - src/unnamed/part_002         the ESM HL7 ingest (parse, enqueue,    *)
(*                                  write samples/normalized.json)         *)
(*   - src/src/scripts/hl7-ingest.ts  the legacy HL7 ingest                *)
(*   - src/unnamed/part_003         the metrics counters (inc, snapshot)   *)
(*   - src/src/scripts/agent-orchestrator.ts, src/unnamed/part_001         *)
(*                                  the agent orchestrator, ESM and legacy *)
(*   - src/src/evals/eval.ts        the eval harness                       *)
(* JavaScript strings are TLA+ strings; the string methods the code uses   *)
(* (trim, split, startsWith, includes) are modelled character by           *)
(* character.                                                              *)
(***************************************************************************)
EXTENDS Integers, Sequences, FiniteSets, TLC

VARIABLES
  q,          \* queue.ts: const q: QueueItem[]
  seen,       \* queue.ts: const seen = new Set<string>()
  ret,        \* the value returned by the last queue call
  call,       \* the last queue call: [op, arg]
  accepted,   \* history: the items whose enqueue returned true, in call order
  delivered,  \* history: the items returned by dequeue, in call order
  variant,    \* which ingest script this process runs: "esm" | "legacy" | "none"
  raw,        \* the raw HL7 text the process ingests
  now,        \* the wall clock, in ms (Date.now(), new Date())
  nTicks,     \* how often the clock has been advanced between calls
  runs,       \* history: the events parseHL7Message has returned, in call order
  file,       \* the content of samples/normalized.json (a sequence of 0 or 1 events)
  eventQueue, \* hl7-ingest.ts: const eventQueue: NormalizedEvent[]
  heap,       \* the objects of the metrics module and of its callers, by
              \* reference: heap[0] is `counters`, the others are snapshots
  held,       \* the references snapshot() has returned, in call order
  mcall,      \* the last metrics operation: [op, key, ref]
  nInc,       \* history: how often inc(key) has been called, per key
  agent,      \* which orchestrator script this process runs: "esm" | "legacy" | "none"
  events,     \* runOrchestrator: the gathered events
  pos,        \* runOrchestrator: how many events the loop has passed to processEvent
  apc,        \* runOrchestrator: "loop" | "done" | "crashed" ("idle": not running)
  metrics,    \* runOrchestrator: const metrics: ProcessingMetrics
  outcomes,   \* history: how each processEvent call ended, in call order
  handled,    \* history: the events passed to processEvent, over all processes
  procs,      \* history: per process started, the scripts that have run in it
  tasks,      \* eval.ts: doc.tasks
  payload,    \* eval.ts: const payload
  ti,         \* eval.ts: how many tasks the loop has evaluated
  pass,       \* eval.ts: let pass
  fail,       \* eval.ts: let fail
  rollback,   \* eval.ts: const rollback (FALSE until it is computed)
  epc,        \* eval.ts: "loop" | "done" ("idle": not running)
  prod,       \* the producers that call enqueue: per producer, its call and result
  sdk         \* the AIHealthSDK calls made so far: per call, its state and history

qvars == <<q, seen, ret, call, accepted, delivered>>
ivars == <<variant, raw, now, nTicks, runs, file, eventQueue>>
mvars == <<heap, held, mcall, nInc>>
avars == <<agent, events, pos, apc, metrics, outcomes, handled, procs>>
evars == <<tasks, payload, ti, pass, fail, rollback, epc>>
pvars == <<prod>>
svars == <<sdk>>
vars == <<q, seen, ret, call, accepted, delivered,
          variant, raw, now, nTicks, runs, file, eventQueue,
          heap, held, mcall, nInc,
          agent, events, pos, apc, metrics, outcomes, handled, procs,
          tasks, payload, ti, pass, fail, rollback, epc, prod, sdk>>

-----------------------------------------------------------------------------
(* Bounds *)

\* number of distinct item ids the producers draw from
MaxIds == 3
\* how often the clock may be advanced between calls
MaxTicks == 1
\* how many times one process runs the ingest step
MaxRuns == 2

-----------------------------------------------------------------------------
(* The parts of the state a process does not use *)

\* a map without keys: the object {}
EmptyMap == [k \in {} |-> 0]

\* part_003 at module load: const counters: Counters = {}
MetricsInit ==
  /\ heap = <<EmptyMap>>
  /\ held = <<>>
  /\ mcall = [op |-> "none"]
  /\ nInc = EmptyMap

AgentIdle ==
  /\ agent = "none"
  /\ events = <<>>
  /\ pos = 0
  /\ apc = "idle"
  /\ metrics = [eventsProcessed |-> 0, policyViolations |-> 0,
                successCount |-> 0, errorCount |-> 0]
  /\ outcomes = <<>>
  /\ handled = <<>>
  /\ procs = <<>>

EvalIdle ==
  /\ tasks = <<>>
  /\ payload = ""
  /\ ti = 0
  /\ pass = 0
  /\ fail = 0
  /\ rollback = FALSE
  /\ epc = "idle"

ProducersIdle == prod = <<>>

\* no SDK call has been made
SdkIdle == sdk = <<>>

-----------------------------------------------------------------------------
(* Strings *)

Digits == <<"0", "1", "2", "3", "4", "5", "6", "7", "8", "9">>

\* `${n}` for a non-negative integer n
RECURSIVE NumToStr(_)
NumToStr(n) ==
  IF n < 10 THEN Digits[n + 1]
  ELSE NumToStr(n \div 10) \o Digits[(n % 10) + 1]

\* s.includes(needle)
Includes(s, needle) ==
  \E i \in 1..(Len(s) - Len(needle) + 1) : SubSeq(s, i, i + Len(needle) - 1) = needle

\* s.startsWith(p)
StartsWith(s, p) == Len(s) >= Len(p) /\ SubSeq(s, 1, Len(p)) = p

\* the k-th smallest element of a finite set of integers
Nth(P, k) == CHOOSE p \in P : Cardinality({x \in P : x < p}) = k - 1

\* s.split(sep) for a separator of one character: the pieces between the
\* occurrences of sep, always at least one piece
Split(s, sep) ==
  LET P == { i \in 1..Len(s) : SubSeq(s, i, i) = sep }
      n == Cardinality(P)
  IN [ k \in 1..(n + 1) |->
         SubSeq(s, IF k = 1 THEN 1 ELSE Nth(P, k - 1) + 1,
                   IF k = n + 1 THEN Len(s) ELSE Nth(P, k) - 1) ]

\* the characters String.prototype.trim removes (those the inputs use)
WhiteSpace == {" ", "\t", "\n", "\r"}

RECURSIVE TrimStart(_)
TrimStart(s) ==
  IF Len(s) > 0 /\ SubSeq(s, 1, 1) \in WhiteSpace
  THEN TrimStart(SubSeq(s, 2, Len(s)))
  ELSE s

RECURSIVE TrimEnd(_)
TrimEnd(s) ==
  IF Len(s) > 0 /\ SubSeq(s, Len(s), Len(s)) \in WhiteSpace
  THEN TrimEnd(SubSeq(s, 1, Len(s) - 1))
  ELSE s

\* s.trim()
Trim(s) == TrimEnd(TrimStart(s))

\* s.split(/\r?\n/): a \r right before a \n belongs to the separator
SplitLines(s) ==
  LET pieces == Split(s, "\n")
      chop(p) == IF Len(p) > 0 /\ SubSeq(p, Len(p), Len(p)) = "\r"
                 THEN SubSeq(p, 1, Len(p) - 1)
                 ELSE p
  IN [i \in 1..Len(pieces) |-> IF i < Len(pieces) THEN chop(pieces[i]) ELSE pieces[i]]

\* arr[i] || dflt for an array of strings (i counts from 0): a missing or
\* empty element gives dflt
OrDefault(arr, i, dflt) ==
  IF i + 1 <= Len(arr) /\ arr[i + 1] # "" THEN arr[i + 1] ELSE dflt

\* lines.find(l => l.startsWith(name)): the index of the first such line, 0 if none
FindLine(lines, name) ==
  IF \E i \in 1..Len(lines) : StartsWith(lines[i], name)
  THEN CHOOSE i \in 1..Len(lines) :
         /\ StartsWith(lines[i], name)
         /\ \A j \in 1..(i - 1) : ~StartsWith(lines[j], name)
  ELSE 0

\* n.toString().padStart(w, "0")
RECURSIVE Pad(_, _)
Pad(n, w) == IF w <= 1 THEN NumToStr(n) ELSE
             IF Len(NumToStr(n)) >= w THEN NumToStr(n)
             ELSE "0" \o Pad(n, w - 1)

\* new Date(ms).toISOString(), for an instant of 1970-01-01
ToISOString(ms) ==
  "1970-01-01T" \o Pad((ms \div 3600000) % 24, 2) \o ":" \o Pad((ms \div 60000) % 60, 2)
    \o ":" \o Pad((ms \div 1000) % 60, 2) \o "." \o Pad(ms % 1000, 3) \o "Z"

\* the number a string of decimal digits denotes
RECURSIVE StrToNum(_)
StrToNum(s) ==
  IF Len(s) = 0 THEN 0
  ELSE LET d == CHOOSE k \in 0..9 : Digits[k + 1] = SubSeq(s, Len(s), Len(s))
       IN 10 * StrToNum(SubSeq(s, 1, Len(s) - 1)) + d

\* new Date(iso).getTime(), for an ISO string of 1970-01-01
GetTime(iso) ==
  StrToNum(SubSeq(iso, 12, 13)) * 3600000 + StrToNum(SubSeq(iso, 15, 16)) * 60000
    + StrToNum(SubSeq(iso, 18, 19)) * 1000 + StrToNum(SubSeq(iso, 21, 23))

-----------------------------------------------------------------------------
(* queue.ts *)

Ids == { "id" \o NumToStr(i) : i \in 1..MaxIds }
Payloads == {"pa", "pb"}
Items == [id : Ids, type : {"HL7v2"}, payload : Payloads]

\* what q.shift() returns on an empty array
Undefined == [undefined |-> TRUE]
NoArg == [none |-> TRUE]

\* enqueue as it would be were the duplicate pushed before the early return
enqueue_pushes_duplicate(item) ==
  IF item.id \in seen
  THEN /\ ret' = FALSE
       /\ q' = Append(q, item)
       /\ UNCHANGED seen
  ELSE /\ seen' = seen \cup {item.id}
       /\ q' = Append(q, item)
       /\ ret' = TRUE

\* enqueue as it would be with a capacity of two items
enqueue_bounded(item) ==
  IF item.id \in seen \/ Len(q) >= 2
  THEN /\ ret' = FALSE
       /\ UNCHANGED <<seen, q>>
  ELSE /\ seen' = seen \cup {item.id}
       /\ q' = Append(q, item)
       /\ ret' = TRUE

\* enqueue as it would be without seen.add
enqueue_no_record(item) ==
  IF item.id \in seen
  THEN /\ ret' = FALSE
       /\ UNCHANGED <<seen, q>>
  ELSE /\ q' = Append(q, item)
       /\ ret' = TRUE
       /\ UNCHANGED seen

\* enqueue(item): the transition of seen, q and the returned value
enqueue(item) ==
  IF item.id \in seen
  THEN /\ ret' = FALSE
       /\ UNCHANGED <<seen, q>>
  ELSE /\ seen' = seen \cup {item.id}
       /\ q' = Append(q, item)
       /\ ret' = TRUE

\* dequeue as it would be were the id forgotten with the item
dequeue_forgets_id ==
  IF q = <<>>
  THEN /\ ret' = Undefined
       /\ UNCHANGED <<seen, q>>
  ELSE /\ ret' = Head(q)
       /\ q' = Tail(q)
       /\ seen' = seen \ {Head(q).id}

\* dequeue as it would be with q.pop() for q.shift()
dequeue_pop ==
  IF q = <<>>
  THEN /\ ret' = Undefined
       /\ UNCHANGED <<seen, q>>
  ELSE /\ ret' = q[Len(q)]
       /\ q' = SubSeq(q, 1, Len(q) - 1)
       /\ UNCHANGED seen

\* dequeue as it would be were the dedup record reset on an empty queue
dequeue_resets_on_empty ==
  IF q = <<>>
  THEN /\ ret' = Undefined
       /\ seen' = {}
       /\ UNCHANGED q
  ELSE /\ ret' = Head(q)
       /\ q' = Tail(q)
       /\ UNCHANGED seen

\* dequeue(): q.shift()
dequeue ==
  IF q = <<>>
  THEN /\ ret' = Undefined
       /\ UNCHANGED <<seen, q>>
  ELSE /\ ret' = Head(q)
       /\ q' = Tail(q)
       /\ UNCHANGED seen

\* size as it would be were it seen.size, the total ever accepted
size_of_seen ==
  /\ ret' = Cardinality(seen)
  /\ UNCHANGED <<seen, q>>

\* size(): q.length
size ==
  /\ ret' = Len(q)
  /\ UNCHANGED <<seen, q>>

\* a call of enqueue by any producer, with the histories
CallEnqueue(item) ==
  /\ enqueue(item)
  /\ call' = [op |-> "enqueue", arg |-> item]
  /\ accepted' = IF ret' THEN Append(accepted, item) ELSE accepted
  /\ UNCHANGED delivered

CallDequeue ==
  /\ dequeue
  /\ call' = [op |-> "dequeue", arg |-> NoArg]
  /\ delivered' = IF ret' = Undefined THEN delivered ELSE Append(delivered, ret')
  /\ UNCHANGED accepted

CallSize ==
  /\ size
  /\ call' = [op |-> "size", arg |-> NoArg]
  /\ UNCHANGED <<accepted, delivered>>

QueueInit ==
  /\ q = <<>>
  /\ seen = {}
  /\ ret = Undefined
  /\ call = [op |-> "none", arg |-> NoArg]
  /\ accepted = <<>>
  /\ delivered = <<>>

IngestIdle ==
  /\ variant = "none"
  /\ raw = ""
  /\ now = 0
  /\ nTicks = 0
  /\ runs = <<>>
  /\ file = <<>>
  /\ eventQueue = <<>>

Enqueue ==
  \E item \in Items :
    CallEnqueue(item) /\ UNCHANGED <<ivars, mvars, avars, evars, pvars, svars>>
Dequeue == CallDequeue /\ UNCHANGED <<ivars, mvars, avars, evars, pvars, svars>>
Size == CallSize /\ UNCHANGED <<ivars, mvars, avars, evars, pvars, svars>>

Init ==
  QueueInit /\ IngestIdle /\ MetricsInit /\ AgentIdle /\ EvalIdle /\ ProducersIdle /\ SdkIdle
Next == Enqueue \/ Dequeue \/ Size
Spec == Init /\ [][Next]_vars

-----------------------------------------------------------------------------
(* The raw HL7 texts the ingest scripts are run on *)

FullMsh == "MSH|^~\\&|APP|FAC|FACILITY_001|RF|2023||ADT^A01|MSG1|P|2.5"
FullPid == "PID|1||MRN1||DOE^JOHN||1980|M"
FullPv1 == "PV1|1|I|ICU||||DRS"

\* MSH segments: the message types, with and without MSH-10, MSH-9, MSH-5
MshLines ==
  { FullMsh,
    "MSH|^~\\&|APP|FAC|FACILITY_002|RF|2023||ADT^A03|MSG2|P|2.5",
    "MSH|^~\\&|APP|FAC|FACILITY_009|RF|2023||ADT^A02^A03|MSG3",
    "MSH|^~\\&|APP|FAC|FACILITY_001|RF|2023||ADT^A03^A01|MSG4",
    "MSH|^~\\&|APP|FAC|FACILITY_001|RF|2023||ADT^A02",
    "MSH|^~\\&|APP|FAC|FACILITY_001|RF|2023||ADT^A08|",
    "MSH|^~\\&|APP|FAC|FACILITY_001|RF|2023||ORU^R01|MSG6",
    "MSH|^~\\&|APP|FAC||RF|2023|||MSG7" }

\* the segment, a segment with fields missing, no segment
PidLines == { FullPid, "PID|1||||DOE", "" }
Pv1Lines == { FullPv1, "" }

\* the non-empty lines, joined by sep
RECURSIVE JoinLines(_, _)
JoinLines(lines, sep) ==
  IF lines = <<>> THEN ""
  ELSE IF Head(lines) = "" THEN JoinLines(Tail(lines), sep)
  ELSE IF JoinLines(Tail(lines), sep) = "" THEN Head(lines)
  ELSE Head(lines) \o sep \o JoinLines(Tail(lines), sep)

RawMessages ==
  { JoinLines(<<m, FullPid, FullPv1>>, "\n") : m \in MshLines }
  \cup
  { JoinLines(<<m, p, v>>, "\n") : m \in {FullMsh, ""}, p \in PidLines, v \in Pv1Lines }
  \cup
  { \* CRLF line ends and a final line end, as in a file
    "MSH|^~\\&|APP|FAC|FACILITY_001|RF|2023||ADT^A01|MSG1\r\nPID|1||MRN1||DOE^JOHN\r\n",
    \* no MSH-10, the message type ends its line, CRLF line ends
    "MSH|^~\\&|APP|FAC|FACILITY_001|RF|2023||ADT^A03\r\nPV1|1|I|ICU\r\n",
    \* the MSH segment is not the first line
    "PID|1||MRN1||DOE^JOHN||1980|M\nMSH|^~\\&|APP|FAC|FACILITY_001|RF|2023||ADT^A01|MSG1",
    \* a blank line first
    "\nMSH|^~\\&|APP|FAC|FACILITY_002|RF|2023||ADT^A02|MSG9\nPID|1||MRN2" }

-----------------------------------------------------------------------------
(* The clock *)

\* the window of the legacy duplicate check, in ms
DupWindowMs == 60000

\* how far the clock moves between two calls: just inside the window, and
\* just outside it
TickSteps == {DupWindowMs - 1, DupWindowMs}

-----------------------------------------------------------------------------
(* part_002: the ESM ingest *)

\* (lines.find(l => l.startsWith(name)) ?? "").split("|"), were the first line
\* taken when no line matches
segment_first_line(lines, name) ==
  IF FindLine(lines, name) = 0
  THEN Split(lines[1], "|")
  ELSE Split(lines[FindLine(lines, name)], "|")

\* (lines.find(l => l.startsWith(name)) ?? "").split("|")
segment(lines, name) ==
  IF FindLine(lines, name) = 0
  THEN Split("", "|")
  ELSE Split(lines[FindLine(lines, name)], "|")

\* eventType, were A02 tested before A03
eventType_a02_first(msgType) ==
  IF Includes(msgType, "A01") THEN "admission"
  ELSE IF Includes(msgType, "A02") THEN "transfer"
  ELSE IF Includes(msgType, "A03") THEN "discharge"
  ELSE "update"

\* const eventType = msgType.includes("A01") ? ... : "update"
eventType(msgType) ==
  IF Includes(msgType, "A01") THEN "admission"
  ELSE IF Includes(msgType, "A03") THEN "discharge"
  ELSE IF Includes(msgType, "A02") THEN "transfer"
  ELSE "update"

\* parseHL7Message as it would be without the MRN_UNKNOWN default
parseHL7Message_empty_mrn(hl7, t) ==
  LET lines == SplitLines(Trim(hl7))
      msh == segment(lines, "MSH")
      pid == segment(lines, "PID")
      pv1 == segment(lines, "PV1")
      msgType == OrDefault(msh, 8, "ADT^A01")
      mrn == OrDefault(pid, 3, "")
      nameParts == Split(OrDefault(pid, 5, "^"), "^")
      controlId == OrDefault(msh, 9, "MSG" \o NumToStr(t))
  IN [ id |-> "evt_" \o controlId,
       type |-> eventType(msgType),
       patientId |-> mrn,
       facilityId |-> OrDefault(msh, 4, "FACILITY_001"),
       timestamp |-> ToISOString(t),
       data |-> [ messageType |-> msgType,
                  patientMRN |-> mrn,
                  patientName |-> [ family |-> OrDefault(nameParts, 0, ""),
                                    given |-> OrDefault(nameParts, 1, "") ],
                  patientDOB |-> OrDefault(pid, 7, ""),
                  patientGender |-> OrDefault(pid, 8, ""),
                  location |-> OrDefault(pv1, 3, ""),
                  attendingPhysician |-> OrDefault(pv1, 7, "") ],
       metadata |-> [ originalHL7 |-> hl7,
                      processedAt |-> ToISOString(t),
                      source |-> "hl7-ingest" ] ]

\* parseHL7Message(hl7) of the ESM ingest, called at time t (the clock reads of
\* one call, Date.now() and the two new Date(), fall in the same millisecond)
parseHL7Message(hl7, t) ==
  LET lines == SplitLines(Trim(hl7))
      msh == segment(lines, "MSH")
      pid == segment(lines, "PID")
      pv1 == segment(lines, "PV1")
      msgType == OrDefault(msh, 8, "ADT^A01")
      mrn == OrDefault(pid, 3, "MRN_UNKNOWN")
      nameParts == Split(OrDefault(pid, 5, "^"), "^")
      controlId == OrDefault(msh, 9, "MSG" \o NumToStr(t))
  IN [ id |-> "evt_" \o controlId,
       type |-> eventType(msgType),
       patientId |-> mrn,
       facilityId |-> OrDefault(msh, 4, "FACILITY_001"),
       timestamp |-> ToISOString(t),
       data |-> [ messageType |-> msgType,
                  patientMRN |-> mrn,
                  patientName |-> [ family |-> OrDefault(nameParts, 0, ""),
                                    given |-> OrDefault(nameParts, 1, "") ],
                  patientDOB |-> OrDefault(pid, 7, ""),
                  patientGender |-> OrDefault(pid, 8, ""),
                  location |-> OrDefault(pv1, 3, ""),
                  attendingPhysician |-> OrDefault(pv1, 7, "") ],
       metadata |-> [ originalHL7 |-> hl7,
                      processedAt |-> ToISOString(t),
                      source |-> "hl7-ingest" ] ]

\* main(): parse the sample, enqueue the event, write samples/normalized.json
IngestESM ==
  /\ variant = "esm"
  /\ Len(runs) < MaxRuns
  /\ LET normalized == parseHL7Message(raw, now)
         item == [id |-> normalized.id, type |-> "HL7v2", payload |-> normalized]
     IN /\ CallEnqueue(item)
        /\ file' = <<normalized>>
        /\ runs' = Append(runs, normalized)
  /\ UNCHANGED <<variant, raw, now, nTicks, eventQueue>>
  /\ UNCHANGED <<mvars, avars, evars, pvars, svars>>

-----------------------------------------------------------------------------
(* hl7-ingest.ts: the legacy ingest *)

\* Math.random().toString(36).substr(2, 9)
RandomSuffixes == {"k3j9x0a1z", "q7w2e5r8t"}

\* lines.find(line => line.startsWith(name))?.split('|') || []
legacySegment(lines, name) ==
  IF FindLine(lines, name) = 0
  THEN <<>>
  ELSE Split(lines[FindLine(lines, name)], "|")

\* messageType.includes('A01') ? 'admission' : 'update'
legacyEventType(messageType) ==
  IF Includes(messageType, "A01") THEN "admission" ELSE "update"

\* parseHL7Message(hl7) of the legacy ingest, called at time t (the clock reads
\* of one call fall in the same millisecond), with the random suffix rnd
legacyParseHL7Message(hl7, t, rnd) ==
  LET lines == Split(hl7, "\n")
      mshSegment == Split(lines[1], "|")
      pidSegment == legacySegment(lines, "PID")
      pv1Segment == legacySegment(lines, "PV1")
      messageType == OrDefault(mshSegment, 8, "ADT^A01")
      patientName == IF OrDefault(pidSegment, 5, "") # ""
                     THEN Split(pidSegment[6], "^")
                     ELSE <<"", "">>
  IN [ id |-> "evt_" \o NumToStr(t) \o "_" \o rnd,
       type |-> legacyEventType(messageType),
       patientId |-> OrDefault(pidSegment, 3, "unknown"),
       facilityId |-> OrDefault(mshSegment, 4, "FACILITY_001"),
       timestamp |-> ToISOString(t),
       data |-> [ messageType |-> messageType,
                  patientMRN |-> OrDefault(pidSegment, 3, ""),
                  patientName |-> [ family |-> OrDefault(patientName, 0, ""),
                                    given |-> OrDefault(patientName, 1, "") ],
                  patientDOB |-> OrDefault(pidSegment, 7, ""),
                  patientGender |-> OrDefault(pidSegment, 8, ""),
                  location |-> OrDefault(pv1Segment, 3, ""),
                  attendingPhysician |-> OrDefault(pv1Segment, 7, "") ],
       metadata |-> [ originalHL7 |-> hl7,
                      processedAt |-> ToISOString(t),
                      source |-> "hl7-ingest" ] ]

\* |a - b|
Abs(n) == IF n < 0 THEN -n ELSE n

\* the duplicate check with the end of the window counted in
isDuplicate_inclusive(normalizedEvent) ==
  \E i \in 1..Len(eventQueue) :
    /\ eventQueue[i].data.patientMRN = normalizedEvent.data.patientMRN
    /\ eventQueue[i].data.messageType = normalizedEvent.data.messageType
    /\ Abs(GetTime(eventQueue[i].timestamp) - GetTime(normalizedEvent.timestamp))
         <= DupWindowMs

\* the duplicate check of processHL7Message
isDuplicate(normalizedEvent) ==
  \E i \in 1..Len(eventQueue) :
    /\ eventQueue[i].data.patientMRN = normalizedEvent.data.patientMRN
    /\ eventQueue[i].data.messageType = normalizedEvent.data.messageType
    /\ Abs(GetTime(eventQueue[i].timestamp) - GetTime(normalizedEvent.timestamp))
         < DupWindowMs

\* processHL7Message(hl7Message)
IngestLegacy ==
  /\ variant = "legacy"
  /\ Len(runs) < MaxRuns
  /\ \E rnd \in RandomSuffixes :
       LET normalizedEvent == legacyParseHL7Message(raw, now, rnd)
       IN /\ eventQueue' = IF isDuplicate(normalizedEvent)
                           THEN eventQueue
                           ELSE Append(eventQueue, normalizedEvent)
          /\ runs' = Append(runs, normalizedEvent)
  /\ UNCHANGED <<variant, raw, now, nTicks, file>>
  /\ UNCHANGED <<qvars, mvars, avars, evars, pvars, svars>>

\* time passes between two calls
Tick ==
  /\ nTicks < MaxTicks
  /\ \E d \in TickSteps : now' = now + d
  /\ nTicks' = nTicks + 1
  /\ UNCHANGED <<variant, raw, runs, file, eventQueue>>
  /\ UNCHANGED <<qvars, mvars, avars, evars, pvars, svars>>

IngestInit ==
  /\ variant \in {"esm", "legacy"}
  /\ raw \in RawMessages
  /\ now = 0
  /\ nTicks = 0
  /\ runs = <<>>
  /\ file = <<>>
  /\ eventQueue = <<>>

InitIngest ==
  QueueInit /\ IngestInit /\ MetricsInit /\ AgentIdle /\ EvalIdle /\ ProducersIdle /\ SdkIdle
NextIngest == IngestESM \/ IngestLegacy \/ Tick
SpecIngest == InitIngest /\ [][NextIngest]_vars

-----------------------------------------------------------------------------
(* Claims about the queue, checked under Spec *)

\* the ids of the items of a sequence
IdsOf(items) == { items[i].id : i \in 1..Len(items) }

\* C1: enqueue of an item whose id an earlier enqueue accepted returns false
\* and mutates nothing: q (items, order, length) and seen are unchanged.
C1_IdempotentEnqueue ==
  [][ (call'.op = "enqueue" /\ call'.arg.id \in IdsOf(accepted))
      => /\ ret' = FALSE
         /\ q' = q
         /\ Len(q') = Len(q)
         /\ seen' = seen ]_vars

C1_Witness ==
  /\ call.op = "enqueue"
  /\ ret = FALSE
  /\ call.arg.id \in IdsOf(accepted)
  /\ \E i \in 1..Len(q) : q[i].id = call.arg.id /\ q[i].payload # call.arg.payload

\* C2: enqueue of an id never accepted before succeeds at every queue size:
\* it returns true, records the id, appends the item at the tail and the
\* size grows by 1; enqueue returns false iff the id was seen before.
C2_FreshEnqueueSucceeds ==
  [][ call'.op = "enqueue"
      => /\ (ret' = FALSE) <=> (call'.arg.id \in IdsOf(accepted))
         /\ call'.arg.id \notin IdsOf(accepted)
              => /\ ret' = TRUE
                 /\ seen' = seen \cup {call'.arg.id}
                 /\ q' = Append(q, call'.arg)
                 /\ Len(q') = Len(q) + 1 ]_vars

C2_Witness ==
  /\ call.op = "enqueue"
  /\ ret = TRUE
  /\ Len(q) >= 3
  /\ q[Len(q)] = call.arg

\* C3: the dedup record survives dequeue: every id ever accepted stays in
\* seen, and a later enqueue of it returns false, also once the item has been
\* dequeued and the queue drained.
C3_DedupSurvivesDequeue ==
  /\ [](IdsOf(accepted) \subseteq seen)
  /\ [][ (call'.op = "enqueue" /\ call'.arg.id \in IdsOf(delivered))
         => (ret' = FALSE /\ call'.arg.id \in seen') ]_vars

C3_Witness ==
  /\ call.op = "enqueue"
  /\ ret = FALSE
  /\ q = <<>>
  /\ call.arg.id \in IdsOf(delivered)

\* C4: FIFO: the items dequeued so far are a prefix of the items accepted,
\* in the same order; the rest is exactly the queue; no accepted item is
\* returned twice, and a returned item is no longer queued.
C4_Fifo ==
  /\ accepted = delivered \o q
  /\ \A i, j \in 1..Len(delivered) : i # j => delivered[i].id # delivered[j].id
  /\ IdsOf(delivered) \cap IdsOf(q) = {}
  /\ (call.op = "dequeue" /\ ret # Undefined)
       => (Len(delivered) > 0 /\ ret = accepted[Len(delivered)])

C4_Witness ==
  /\ call.op = "dequeue"
  /\ Len(delivered) >= 2
  /\ Len(q) >= 1

\* C5: dequeue on an empty queue returns undefined and changes nothing.
C5_DequeueEmpty ==
  [][ (call'.op = "dequeue" /\ q = <<>>)
      => /\ ret' = Undefined
         /\ q' = <<>>
         /\ Len(q') = 0
         /\ seen' = seen ]_vars

C5_Witness ==
  /\ call.op = "dequeue"
  /\ ret = Undefined
  /\ q = <<>>
  /\ seen # {}

\* C6: size() is the number of items awaiting dequeue: accepted enqueues minus
\* non-empty dequeues, between 0 and the number of seen ids; size() mutates
\* nothing.
C6_Size ==
  /\ [](/\ Len(q) = Len(accepted) - Len(delivered)
        /\ Len(q) >= 0
        /\ Len(q) <= Cardinality(seen)
        /\ call.op = "size" => ret = Len(accepted) - Len(delivered))
  /\ [][ call'.op = "size" => (q' = q /\ seen' = seen) ]_vars

C6_Witness ==
  /\ call.op = "size"
  /\ ret >= 1
  /\ ret < Cardinality(seen)

-----------------------------------------------------------------------------
(* Claims about the normalizer, checked under SpecIngest *)

\* the fields of an event that are not wall-clock stamps
Fields(ev) == <<ev.type, ev.patientId, ev.facilityId, ev.data>>

\* C7: determinism: two runs of parseHL7Message on the same raw text yield
\* the same event id and the same fields, in both ingest variants and with
\* or without an MSH-10 control id.
C7_Determinism ==
  \A i, j \in 1..Len(runs) :
    /\ runs[i].id = runs[j].id
    /\ Fields(runs[i]) = Fields(runs[j])

\* C8: idempotent re-ingestion: once the same raw message has been normalized
\* and enqueued twice in one process, the second enqueue has returned false
\* and the queue holds exactly one item.
C8_IdempotentReingest ==
  (variant = "esm" /\ Len(runs) = 2 /\ call.op = "enqueue")
    => (ret = FALSE /\ Len(q) = 1)

\* the ordered substring matches of the claim: A01, then A03, then A02
OrderedMatch(code) ==
  IF Includes(code, "A01") THEN "admission"
  ELSE IF Includes(code, "A03") THEN "discharge"
  ELSE IF Includes(code, "A02") THEN "transfer"
  ELSE "update"

\* C9 as stated: in every ingest variant the type is admission if the code
\* contains A01, else discharge if it contains A03, else transfer if it
\* contains A02, else update.
C9_Original ==
  \A i \in 1..Len(runs) : runs[i].type = OrderedMatch(runs[i].data.messageType)

\* C9 as amended: the ordered matches A01, A03, A02 (first match wins, update
\* otherwise) hold in the ESM variant; the legacy variant matches A01 only:
\* admission if the code contains A01, update otherwise.
C9_Classification ==
  \A i \in 1..Len(runs) :
    LET code == runs[i].data.messageType
    IN /\ variant = "esm" => runs[i].type = OrderedMatch(code)
       /\ variant = "legacy"
            => runs[i].type = (IF Includes(code, "A01") THEN "admission" ELSE "update")

C9_Witness ==
  /\ variant = "esm"
  /\ Len(runs) > 0
  /\ Includes(runs[1].data.messageType, "A02")
  /\ Includes(runs[1].data.messageType, "A03")
  /\ runs[1].type = "discharge"

\* no line of the text starts with the segment name
Absent(text, name) ==
  \A i \in 1..Len(Split(text, "\n")) : ~StartsWith(Split(text, "\n")[i], name)

\* the fields extracted from the PID segment and from the PV1 segment that
\* have no default
PidPlain(ev) ==
  <<ev.data.patientName.family, ev.data.patientName.given,
    ev.data.patientDOB, ev.data.patientGender>>
Pv1Plain(ev) == <<ev.data.location, ev.data.attendingPhysician>>

-----------------------------------------------------------------------------
(* part_003: the metrics counters *)

\* The values a property of `counters` can hold at run time. The declared
\* type is number; JavaScript also lets `+` build a string, and a key that
\* is no own property reads what {} inherits from Object.prototype.
Num(n) == [num |-> n]
Str(s) == [str |-> s]
Fn(name) == [fn |-> name]

\* heap[CountersRef] is the module's `counters` object
CountersRef == 1

MaxInc == 3
MaxSnaps == 2

\* the keys callers pass to inc: the orchestrator's "processed", and a name
\* that every object inherits from Object.prototype
MetricKeys == {"processed", "constructor"}
InheritedKeys == {"constructor"}

\* obj[key] := v
Put(obj, key, v) ==
  [k \in DOMAIN obj \cup {key} |-> IF k = key THEN v ELSE obj[k]]

\* delete obj[key]
Remove(obj, key) == [k \in DOMAIN obj \ {key} |-> obj[k]]

\* obj[key] on an object literal: the own property, else the inherited one
Get(obj, key) ==
  IF key \in DOMAIN obj THEN obj[key]
  ELSE IF key \in InheritedKeys THEN Fn("Object")
  ELSE Undefined

\* v || 0
OrZero(v) ==
  IF v = Undefined \/ v = Num(0) \/ v = Str("") THEN Num(0) ELSE v

\* String(v) of a built-in function
FnToString(v) == "function " \o v.fn \o "() { [native code] }"

\* v + 1: addition on a number, concatenation otherwise
PlusOne(v) ==
  IF "num" \in DOMAIN v THEN Num(v.num + 1)
  ELSE IF "str" \in DOMAIN v THEN Str(v.str \o "1")
  ELSE Str(FnToString(v) \o "1")

inc_resets(h, key) == [h EXCEPT ![CountersRef] = Put(h[CountersRef], key, Num(1))]

\* counters[key] = (counters[key] || 0) + 1
inc(h, key) ==
  [h EXCEPT ![CountersRef] =
     Put(h[CountersRef], key, PlusOne(OrZero(Get(h[CountersRef], key))))]

snapshot_live(h) == [heap |-> h, ref |-> CountersRef]

\* ({ ...counters }): a new object with the own properties of counters
snapshot(h) == [heap |-> Append(h, h[CountersRef]), ref |-> Len(h) + 1]

NInc(key) == IF key \in DOMAIN nInc THEN nInc[key] ELSE 0

RECURSIVE SumInc(_)
SumInc(keys) ==
  IF keys = {} THEN 0
  ELSE LET k == CHOOSE x \in keys : TRUE IN NInc(k) + SumInc(keys \ {k})

CallInc(key) ==
  /\ heap' = inc(heap, key)
  /\ mcall' = [op |-> "inc", key |-> key]
  /\ nInc' = Put(nInc, key, NInc(key) + 1)
  /\ UNCHANGED held

CallSnapshot ==
  LET r == snapshot(heap) IN
    /\ heap' = r.heap
    /\ held' = Append(held, r.ref)
    /\ mcall' = [op |-> "snapshot", ref |-> r.ref]
    /\ UNCHANGED nInc

Held == { held[i] : i \in DOMAIN held }

\* what a caller writes into a snapshot it holds
WrittenValues == {Str("x")}

Inc ==
  /\ SumInc(MetricKeys) < MaxInc
  /\ \E key \in MetricKeys : CallInc(key)
  /\ UNCHANGED <<qvars, ivars, avars, evars, pvars, svars>>

Snapshot ==
  /\ Len(held) < MaxSnaps
  /\ CallSnapshot
  /\ UNCHANGED <<qvars, ivars, avars, evars, pvars, svars>>

\* a caller assigns a property of a snapshot it holds: snap[key] = v
SnapWrite ==
  /\ \E ref \in Held, key \in MetricKeys, v \in WrittenValues :
       /\ heap' = [heap EXCEPT ![ref] = Put(heap[ref], key, v)]
       /\ mcall' = [op |-> "write", ref |-> ref, key |-> key]
  /\ UNCHANGED <<held, nInc>>
  /\ UNCHANGED <<qvars, ivars, avars, evars, pvars, svars>>

\* a caller deletes a property of a snapshot it holds: delete snap[key]
SnapDelete ==
  /\ \E ref \in Held, key \in MetricKeys :
       /\ key \in DOMAIN heap[ref]
       /\ heap' = [heap EXCEPT ![ref] = Remove(heap[ref], key)]
       /\ mcall' = [op |-> "delete", ref |-> ref, key |-> key]
  /\ UNCHANGED <<held, nInc>>
  /\ UNCHANGED <<qvars, ivars, avars, evars, pvars, svars>>

InitMetrics ==
  QueueInit /\ IngestIdle /\ MetricsInit /\ AgentIdle /\ EvalIdle /\ ProducersIdle /\ SdkIdle
NextMetrics == Inc \/ Snapshot \/ SnapWrite \/ SnapDelete
SpecMetrics == InitMetrics /\ [][NextMetrics]_vars

-----------------------------------------------------------------------------
(* Claims about the metrics counters, checked under SpecMetrics *)

counters == heap[CountersRef]

\* a <= b on counter values: numbers by size, strings in string order
\* (the only strings inc produces extend the earlier string)
NonDecreasing(a, b) ==
  IF "num" \in DOMAIN a /\ "num" \in DOMAIN b THEN a.num <= b.num
  ELSE IF "str" \in DOMAIN a /\ "str" \in DOMAIN b THEN StartsWith(b.str, a.str)
  ELSE FALSE

\* the object snapshot() has just returned reads n under `key` after n >= 1
\* calls of inc(key)
SnapshotCounts(keys) ==
  mcall.op = "snapshot" =>
    \A k \in keys : NInc(k) > 0 => Get(heap[mcall.ref], k) = Num(NInc(k))

\* a step leaves every counter in place and not smaller, and an inc(key)
\* changes no other key
CountersGrow ==
  /\ \A k \in DOMAIN counters :
       /\ k \in DOMAIN counters'
       /\ NonDecreasing(counters[k], counters'[k])
  /\ counters' # counters =>
       \A k \in MetricKeys \ {mcall'.key} : Get(counters', k) = Get(counters, k)

\* C13 (as stated): across any sequence of inc(key) and snapshot() calls the
\* counter values are non-decreasing, after n calls of inc(k) on fresh
\* counters snapshot()[k] = n for every key k, inc(k) leaves every other key
\* unchanged, and no operation removes or resets a counter.
C13_Original == [](SnapshotCounts(MetricKeys)) /\ [][CountersGrow]_vars

\* What holds of inc and snapshot: the same statement for the keys that
\* Object.prototype does not define.
C13_OwnKeys == [](SnapshotCounts(MetricKeys \ InheritedKeys)) /\ [][CountersGrow]_vars

C13_OwnKeysWitness ==
  /\ mcall.op = "snapshot"
  /\ NInc("processed") = 2
  /\ heap[mcall.ref]["processed"] = Num(2)

\* C14: snapshot() returns a copy, not a live view: a step that changes the
\* live counters changes no snapshot a caller holds, a step that changes a
\* held snapshot (a write or delete through it) changes neither the live
\* counters nor any other snapshot, and each snapshot() call returns a new
\* object that holds the counters of that moment.
C14_SnapshotIsCopy ==
  [][ /\ \A ref \in Held :
           counters' # counters => heap'[ref] = heap[ref]
      /\ \A ref \in Held :
           heap'[ref] # heap[ref] =>
             /\ counters' = counters
             /\ \A other \in Held \ {ref} : heap'[other] = heap[other]
      /\ held' # held =>
           LET ref == held'[Len(held')] IN
             /\ ref \notin Held \cup {CountersRef}
             /\ heap'[ref] = counters
             /\ counters' = counters ]_vars

\* a snapshot taken at processed = 1 still reads 1 after a later inc, and a
\* caller has just written to or deleted from a snapshot
C14_Witness ==
  /\ mcall.op \in {"write", "delete"}
  /\ Get(counters, "processed") = Num(2)
  /\ \E ref \in Held : Get(heap[ref], "processed") = Num(1)

-----------------------------------------------------------------------------
(* agent-orchestrator.ts and part_001: the agent orchestrator *)

MaxBatch == 2

\* obj has the property `name`; reading a property of a missing (undefined)
\* object throws a TypeError
Has(obj, name) == name \in DOMAIN obj

\* part_001, lines 25-47: the event the legacy script's queue literal holds
SampleEvent ==
  [ id |-> "evt_12345_sample1",
    type |-> "admission",
    patientId |-> "MRN123456",
    facilityId |-> "FACILITY_001",
    timestamp |-> ToISOString(0),
    data |-> [ messageType |-> "ADT^A01",
               patientMRN |-> "MRN123456",
               patientName |-> [family |-> "DOE", given |-> "JOHN"],
               patientDOB |-> "19800101",
               patientGender |-> "M",
               location |-> "ICU^101^01",
               attendingPhysician |-> "12345^SMITH^JANE^M^^^DR" ],
    metadata |-> [ originalHL7 |-> "MSH|^~\\&|...",
                   processedAt |-> ToISOString(0),
                   source |-> "hl7-ingest" ] ]

Ev(mrn, msgType, fac) ==
  [SampleEvent EXCEPT !.facilityId = fac,
                      !.data.patientMRN = mrn,
                      !.data.messageType = msgType]

\* events of the declared type NormalizedEvent
TypedEvents ==
  { Ev(mrn, msgType, fac) : mrn \in {"", "MRN123456"},
                            msgType \in {"ADT^A01", "ORU^R01"},
                            fac \in {"FACILITY_001", "FACILITY_003"} }
  \cup { Ev("MRN123456", "ADT^A03", "FACILITY_002"),
         Ev("MRN123456", "", "FACILITY_001") }

\* A messageType that is a number at run time (the casts asEvent and
\* `raw as NormalizedEvent` check nothing) is written as the property
\* messageTypeNum in place of messageType.
NumType(event) ==
  [event EXCEPT !.data = Put(Remove(event.data, "messageType"), "messageTypeNum", 5)]

\* events that are not of the declared type: properties missing or mistyped
UntypedEvents ==
  { Remove(SampleEvent, "data"),
    Remove(SampleEvent, "facilityId"),
    [SampleEvent EXCEPT !.data = Remove(SampleEvent.data, "patientName")],
    [SampleEvent EXCEPT !.data = Remove(SampleEvent.data, "patientMRN")],
    [SampleEvent EXCEPT !.data = Remove(SampleEvent.data, "messageType")],
    NumType(SampleEvent),
    NumType(Ev("", "ADT^A01", "FACILITY_001")) }

AgentEvents == TypedEvents \cup UntypedEvents

Batches == UNION { [1..n -> AgentEvents] : n \in 0..MaxBatch }

policies_reordered ==
  << [name |-> "valid-message-type", reason |-> "Invalid message type - must be ADT"],
     [name |-> "patient-mrn-required", reason |-> "Patient MRN is required"],
     [name |-> "facility-whitelist", reason |-> "Facility not in whitelist"] >>

\* const policies = [...]: the names and reasons, in declaration order
policies ==
  << [name |-> "patient-mrn-required", reason |-> "Patient MRN is required"],
     [name |-> "valid-message-type", reason |-> "Invalid message type - must be ADT"],
     [name |-> "facility-whitelist", reason |-> "Facility not in whitelist"] >>

FacilityWhitelist_wide == {"FACILITY_001", "FACILITY_002", "FACILITY_003"}

FacilityWhitelist == {"FACILITY_001", "FACILITY_002"}

\* p.check() of the policy `name`: "pass" (truthy), "fail" (falsy) or
\* "throw" (TypeError). The legacy checks lack the `!!`; `if (!policy.check())`
\* coerces their result the same way.
check(name, event) ==
  CASE name = "patient-mrn-required" ->
         IF ~Has(event, "data") THEN "throw"
         ELSE IF Has(event.data, "patientMRN") /\ Len(event.data.patientMRN) > 0
              THEN "pass" ELSE "fail"
    [] name = "valid-message-type" ->
         IF ~Has(event, "data") THEN "throw"
         ELSE IF Has(event.data, "messageTypeNum")
              \* a number has no method includes
              THEN (IF event.data.messageTypeNum = 0 THEN "fail" ELSE "throw")
         ELSE IF Has(event.data, "messageType")
                 /\ event.data.messageType # ""
                 /\ Includes(event.data.messageType, "ADT")
              THEN "pass" ELSE "fail"
    [] name = "facility-whitelist" ->
         IF Has(event, "facilityId") /\ event.facilityId \in FacilityWhitelist
         THEN "pass" ELSE "fail"

\* for (const p of policies) { if (!p.check()) return ... } return allowed
\* `evaluated` lists the policies whose check has run
RECURSIVE runPolicies(_, _, _)
runPolicies(i, event, evaluated) ==
  IF i > Len(policies)
  THEN [ result |-> [ allowed |-> TRUE,
                      reason |-> "All policies passed",
                      metadata |-> [policiesChecked |-> Len(policies)] ],
         evaluated |-> evaluated ]
  ELSE LET p == policies[i]
           c == check(p.name, event)
           ev == Append(evaluated, p.name)
       IN IF c = "throw"
          THEN [result |-> [threw |-> "TypeError"], evaluated |-> ev]
          ELSE IF c = "fail"
          THEN [ result |-> [ allowed |-> FALSE,
                              reason |-> p.reason,
                              metadata |-> [violatedPolicy |-> p.name] ],
                 evaluated |-> ev ]
          ELSE runPolicies(i + 1, event, ev)

validateEventPolicy(event) == runPolicies(1, event, <<>>)

\* processEvent, lines 95-97: the log calls before the try; the third reads
\* event.data.patientName.given
logThrows(event) == ~Has(event, "data") \/ ~Has(event.data, "patientName")

\* if (!policy.allowed) { metrics.policyViolations++; metrics.errorCount++; return; }
onDeny(m) == [m EXCEPT !.policyViolations = @ + 1, !.errorCount = @ + 1]

\* metrics.successCount++
onAllow(m) == [m EXCEPT !.successCount = @ + 1]

\* catch (err) { metrics.errorCount++; }
onCatch(m) == [m EXCEPT !.errorCount = @ + 1]

\* finally { metrics.eventsProcessed++; ... }
onFinally(m) == [m EXCEPT !.eventsProcessed = @ + 1]

\* processEvent(event, metrics): the metrics after the call, how the call
\* ended ("threw": the exception left processEvent), and what the gate said
processEvent(event, m) ==
  IF logThrows(event)
  THEN [metrics |-> m, kind |-> "threw", validation |-> NoArg]
  ELSE LET v == validateEventPolicy(event) IN
       IF "threw" \in DOMAIN v.result
       THEN [metrics |-> onFinally(onCatch(m)), kind |-> "failed", validation |-> v]
       ELSE IF ~v.result.allowed
       THEN [metrics |-> onFinally(onDeny(m)), kind |-> "denied", validation |-> v]
       ELSE [metrics |-> onFinally(onAllow(m)), kind |-> "allowed", validation |-> v]

\* one iteration of `for (const ev of events) processEvent(ev, metrics)`
\* (legacy: eventQueue.forEach); an exception that leaves processEvent leaves
\* the loop and runOrchestrator with it. Only the ESM finally calls inc.
ProcessEvent ==
  /\ apc = "loop"
  /\ pos < Len(events)
  /\ LET r == processEvent(events[pos + 1], metrics) IN
       /\ metrics' = r.metrics
       /\ outcomes' = Append(outcomes, [kind |-> r.kind, validation |-> r.validation])
       /\ handled' = Append(handled, events[pos + 1])
       /\ pos' = pos + 1
       /\ apc' = IF r.kind = "threw" THEN "crashed" ELSE apc
       /\ IF r.kind # "threw" /\ agent = "esm"
          THEN CallInc("processed")
          ELSE UNCHANGED mvars
  /\ UNCHANGED <<agent, events, procs>>
  /\ UNCHANGED <<qvars, ivars, evars, pvars, svars>>

\* runOrchestrator after the loop: const snap = snapshot() (ESM only) and the
\* printed report
Finish ==
  /\ apc = "loop"
  /\ pos = Len(events)
  /\ apc' = "done"
  /\ IF agent = "esm" THEN CallSnapshot ELSE UNCHANGED mvars
  /\ UNCHANGED <<agent, events, pos, metrics, outcomes, handled, procs>>
  /\ UNCHANGED <<qvars, ivars, evars, pvars, svars>>

\* The gathered events are the run's input. The legacy script's queue
\* literal holds SampleEvent; its functions take any event.
AgentInit ==
  /\ agent \in {"esm", "legacy"}
  /\ events \in Batches
  /\ pos = 0
  /\ apc = "loop"
  /\ metrics = [eventsProcessed |-> 0, policyViolations |-> 0,
                successCount |-> 0, errorCount |-> 0]
  /\ outcomes = <<>>
  /\ handled = <<>>
  /\ procs = <<>>

InitAgent ==
  QueueInit /\ IngestIdle /\ MetricsInit /\ AgentInit /\ EvalIdle /\ ProducersIdle /\ SdkIdle
NextAgent == ProcessEvent \/ Finish
SpecAgent == InitAgent /\ [][NextAgent]_vars

-----------------------------------------------------------------------------
(* Claims about the policy gate, checked under SpecAgent *)

\* the declaration order the claim names
DeclaredOrder == <<"patient-mrn-required", "valid-message-type", "facility-whitelist">>
DeclaredReason ==
  <<"Patient MRN is required", "Invalid message type - must be ADT",
    "Facility not in whitelist">>

\* the processEvent calls so far that reached the gate, and those in which
\* the gate returned a result
Validated == { i \in DOMAIN outcomes : outcomes[i].kind # "threw" }
Returned == { i \in DOMAIN outcomes : outcomes[i].kind \in {"allowed", "denied"} }

\* the predicates of DeclaredOrder that the event fails
Failing(event) == { k \in DOMAIN DeclaredOrder : check(DeclaredOrder[k], event) = "fail" }

\* C11: the gate evaluates the predicates in declaration order: for every
\* event that fails at least one predicate the result is allowed=false with
\* the name and reason of the first failing predicate in that order, and no
\* predicate after that one has been evaluated.
C11_FirstFailingWins ==
  \A i \in Returned :
    LET event == events[i]
        v == outcomes[i].validation
    IN Failing(event) # {} =>
         LET first == CHOOSE k \in Failing(event) : \A j \in Failing(event) : k <= j
         IN /\ v.result.allowed = FALSE
            /\ v.result.metadata = [violatedPolicy |-> DeclaredOrder[first]]
            /\ v.result.reason = DeclaredReason[first]
            /\ v.evaluated = SubSeq(DeclaredOrder, 1, first)

\* an event that fails all three predicates has been denied, and so has one
\* whose second check would throw had it been evaluated
C11_Witness ==
  /\ \E i \in Returned : Cardinality(Failing(events[i])) = 3
  /\ \E i \in Returned :
       /\ Has(events[i].data, "messageTypeNum")
       /\ outcomes[i].validation.evaluated = <<"patient-mrn-required">>

\* the three conditions as the claim words them
NonEmptyMRN(event) ==
  Has(event.data, "patientMRN") /\ event.data.patientMRN # ""
MessageTypeHasADT(event) ==
  Has(event.data, "messageType") /\ Includes(event.data.messageType, "ADT")
FacilityListed(event) ==
  Has(event, "facilityId") /\ event.facilityId \in {"FACILITY_001", "FACILITY_002"}

\* C12: the gate returns allowed=true if and only if the event has a
\* non-empty patientMRN, a messageType containing ADT and a facilityId in
\* {FACILITY_001, FACILITY_002}; the result then carries policiesChecked = 3
\* and no violatedPolicy.
C12_AllPass ==
  \A i \in Validated :
    LET event == events[i]
        v == outcomes[i].validation
        allowed == "allowed" \in DOMAIN v.result /\ v.result.allowed
    IN /\ allowed <=>
            NonEmptyMRN(event) /\ MessageTypeHasADT(event) /\ FacilityListed(event)
       /\ allowed =>
            /\ v.result.metadata.policiesChecked = 3
            /\ "violatedPolicy" \notin DOMAIN v.result.metadata
            /\ v.evaluated = DeclaredOrder

\* the gate has allowed an event of FACILITY_002 and has denied another
C12_Witness ==
  /\ \E i \in Validated :
       /\ outcomes[i].kind = "allowed"
       /\ events[i].facilityId = "FACILITY_002"
  /\ \E i \in Validated : outcomes[i].kind = "denied"

-----------------------------------------------------------------------------
(* Claims about the orchestrator's loop and counters, checked under SpecAgent *)

\* how many processEvent calls so far ended in `kind`
Count(kind) == Cardinality({ i \in DOMAIN outcomes : outcomes[i].kind = kind })

\* C16 (as stated): per-item failures never abort the batch: for any list of
\* gathered events, malformed ones included, the run ends with every event
\* processed and tallied, eventsProcessed = number of gathered events.
C16_Original ==
  apc \in {"done", "crashed"} =>
    /\ Len(outcomes) = Len(events)
    /\ metrics.eventsProcessed = Len(events)

\* What holds: a failure inside the try (a denial, or an exception thrown by
\* the gate) is tallied and the loop goes on; the run is cut short exactly
\* when an event has no data or no data.patientName.
C16_CaughtFailures ==
  /\ apc = "done" => metrics.eventsProcessed = Len(events)
  /\ apc = "crashed" <=> \E i \in DOMAIN outcomes : logThrows(events[i])

\* C17 (as stated): a denial increments policyViolations and is not counted
\* in errorCount: errorCount counts only the processing failures.
C17_Original ==
  /\ metrics.policyViolations = Count("denied")
  /\ metrics.errorCount = Count("failed")

\* the snapshot the ESM runOrchestrator prints as "Counters Snapshot:"
snap == heap[held[Len(held)]]

\* C18 (as stated): after a batch the counters snapshot exposes processed,
\* pass and fail, with processed = events processed, pass = events allowed
\* and processed successfully, fail = events rejected or failed.
C18_Original ==
  (agent = "esm" /\ apc = "done") =>
    /\ {"processed", "pass", "fail"} \subseteq DOMAIN snap
    /\ snap["processed"] = Num(metrics.eventsProcessed)
    /\ snap["pass"] = Num(Count("allowed"))
    /\ snap["fail"] = Num(Count("denied") + Count("failed"))

\* the value of the counter "processed", 0 before the first inc
Processed(obj) == IF "processed" \in DOMAIN obj THEN obj["processed"] ELSE Num(0)

\* a processEvent call has just returned normally
Returns == Len(outcomes') = Len(outcomes) + 1 /\ outcomes'[Len(outcomes')].kind # "threw"

\* C20: when processEvent returns normally exactly one of successCount and
\* errorCount has grown by 1, eventsProcessed has grown by 1 and (ESM) the
\* processed counter by 1; an allowed event only increases successCount, a
\* denied one never does. Hence at all times successCount + errorCount =
\* eventsProcessed = the processed counter, and policyViolations <= errorCount.
C20_Accounting ==
  /\ [](/\ metrics.successCount + metrics.errorCount = metrics.eventsProcessed
        /\ metrics.policyViolations <= metrics.errorCount
        /\ agent = "esm" => Processed(counters) = Num(metrics.eventsProcessed)
        /\ (agent = "esm" /\ apc = "done") => Processed(snap) = Num(metrics.eventsProcessed))
  /\ [][Returns =>
          LET kind == outcomes'[Len(outcomes')].kind
              dS == metrics'.successCount - metrics.successCount
              dE == metrics'.errorCount - metrics.errorCount
          IN /\ <<dS, dE>> \in {<<1, 0>>, <<0, 1>>}
             /\ metrics'.eventsProcessed = metrics.eventsProcessed + 1
             /\ agent = "esm" => Processed(counters') = Num(Processed(counters).num + 1)
             /\ kind = "allowed" =>
                  /\ dS = 1
                  /\ metrics'.policyViolations = metrics.policyViolations
             /\ kind = "denied" => dS = 0]_vars

\* an ESM run has finished a batch of one allowed and one denied event
C20_Witness ==
  /\ agent = "esm"
  /\ apc = "done"
  /\ Count("allowed") = 1
  /\ Count("denied") = 1
  /\ snap["processed"] = Num(2)

-----------------------------------------------------------------------------
(* eval.ts: the eval harness *)

MaxTasks == 2

UpperCase == "ABCDEFGHIJKLMNOPQRSTUVWXYZ"
LowerCase == "abcdefghijklmnopqrstuvwxyz"

\* the character c without its case (the letters A-Z; flag i of the pattern)
FoldCase(c) ==
  IF \E i \in 1..Len(UpperCase) : SubSeq(UpperCase, i, i) = c
  THEN LET i == CHOOSE j \in 1..Len(UpperCase) : SubSeq(UpperCase, j, j) = c
       IN SubSeq(LowerCase, i, i)
  ELSE c

EqualsIgnoreCase(a, b) ==
  /\ Len(a) = Len(b)
  /\ \A i \in 1..Len(a) : FoldCase(SubSeq(a, i, i)) = FoldCase(SubSeq(b, i, i))

\* the characters `.` does not match
LineTerminators == {"\n", "\r"}

\* rule.match(/^contains:(.+)$/i): the captured group, or no match
\* (Undefined) when the rule does not start with contains: in any case, or
\* nothing follows it, or a line terminator does
matchContains(rule) ==
  LET prefix == "contains:"
      rest == SubSeq(rule, Len(prefix) + 1, Len(rule))
  IN IF /\ Len(rule) > Len(prefix)
        /\ EqualsIgnoreCase(SubSeq(rule, 1, Len(prefix)), prefix)
        /\ \A i \in 1..Len(rest) : SubSeq(rest, i, i) \notin LineTerminators
     THEN [group |-> rest]
     ELSE Undefined

\* evaluateRule(rule, payload)
evaluateRule(rule, text) ==
  LET m == matchContains(rule)
  IN IF m = Undefined THEN FALSE ELSE Includes(text, m.group)

tally_pass_only(ok, counts) == [counts EXCEPT !.pass = @ + 1]

\* ok ? pass++ : fail++
tally(ok, counts) ==
  IF ok THEN [counts EXCEPT !.pass = @ + 1] ELSE [counts EXCEPT !.fail = @ + 1]

\* the rules of the tasks file, and rules the pattern does not match
EvalRules ==
  { "contains:MSH", "CONTAINS:PID", "contains:msh", "contains:ORU^R01",
    "contains:", "equals:MSH", "contains:2.5\n" }

\* doc.tasks: Task = { name, rule, expect }
EvalTasks == { [name |-> "task", rule |-> r, expect |-> e] : r \in EvalRules, e \in BOOLEAN }

TaskLists == UNION { [1..n -> EvalTasks] : n \in 0..MaxTasks }

\* samples/adt_oru.hl7
EvalPayloads == { JoinLines(<<FullMsh, FullPid, FullPv1>>, "\n"), "" }

\* one iteration of for (const t of doc.tasks)
EvalTask ==
  /\ epc = "loop"
  /\ ti < Len(tasks)
  /\ LET t == tasks[ti + 1]
         actual == evaluateRule(t.rule, payload)
         ok == actual = t.expect
         counts == tally(ok, [pass |-> pass, fail |-> fail])
     IN /\ pass' = counts.pass
        /\ fail' = counts.fail
  /\ ti' = ti + 1
  /\ UNCHANGED <<tasks, payload, rollback, epc>>
  /\ UNCHANGED <<qvars, ivars, mvars, avars, pvars, svars>>

\* const rollback = fail > 0, and the summary line
EvalSummary ==
  /\ epc = "loop"
  /\ ti = Len(tasks)
  /\ rollback' = (fail > 0)
  /\ epc' = "done"
  /\ UNCHANGED <<tasks, payload, ti, pass, fail>>
  /\ UNCHANGED <<qvars, ivars, mvars, avars, pvars, svars>>

EvalInit ==
  /\ tasks \in TaskLists
  /\ payload \in EvalPayloads
  /\ ti = 0
  /\ pass = 0
  /\ fail = 0
  /\ rollback = FALSE
  /\ epc = "loop"

InitEval ==
  QueueInit /\ IngestIdle /\ MetricsInit /\ AgentIdle /\ EvalInit /\ ProducersIdle /\ SdkIdle
NextEval == EvalTask \/ EvalSummary
SpecEval == InitEval /\ [][NextEval]_vars

-----------------------------------------------------------------------------
(* Claims about the eval harness, checked under SpecEval *)

\* the tasks among the first n whose evaluated result equals expect, and
\* those whose result differs
Matching(n) == { i \in 1..n : evaluateRule(tasks[i].rule, payload) = tasks[i].expect }
Differing(n) == { i \in 1..n : evaluateRule(tasks[i].rule, payload) # tasks[i].expect }

\* C15: for any list of tasks and any payload the harness ends with PASS =
\* number of tasks whose result equals expect, FAIL = number of tasks whose
\* result differs, PASS + FAIL = number of tasks, and rollback = true if and
\* only if at least one task fails.
C15_Rollback ==
  /\ pass = Cardinality(Matching(ti))
  /\ fail = Cardinality(Differing(ti))
  /\ pass + fail = ti
  /\ epc = "done" =>
       /\ ti = Len(tasks)
       /\ rollback <=> Differing(Len(tasks)) # {}

\* the spec's example: two tasks expecting true, the first true and the
\* second false, reported as PASS=1 FAIL=1 rollback=true
C15_Witness ==
  /\ epc = "done"
  /\ Len(tasks) = 2
  /\ tasks[1].expect /\ evaluateRule(tasks[1].rule, payload)
  /\ tasks[2].expect /\ ~evaluateRule(tasks[2].rule, payload)
  /\ pass = 1 /\ fail = 1 /\ rollback

-----------------------------------------------------------------------------
(* queue.ts: several producers calling enqueue *)

MaxProducers == 3

Producers == 1..MaxProducers

\* the consumer, which calls dequeue
Consumer == 0

\* the callers other than `caller` that are inside a call of enqueue
InCall(caller) == { p \in DOMAIN prod \ {caller} : prod[p].pc = "checked" }

mayRun_preemptive(caller) == TRUE

\* enqueue is a synchronous function (no await, no callback): on the single
\* JavaScript thread a call runs to completion, so a caller runs only while
\* no other caller is inside a call
mayRun(caller) == InCall(caller) = {}

\* enqueue, line 7: if (seen.has(item.id)) return false, evaluated by
\* producer p for an item of its choice; `fresh` is what the check found
ProducerCheck(p) ==
  /\ prod[p].pc = "idle"
  /\ mayRun(p)
  /\ \E item \in Items :
       prod' = [prod EXCEPT ![p] =
                  [pc |-> "checked", item |-> item, fresh |-> item.id \notin seen]]
  /\ UNCHANGED <<qvars, ivars, mvars, avars, evars, svars>>

\* enqueue, lines 7-10: return false, or seen.add(item.id); q.push(item);
\* return true
ProducerAct(p) ==
  /\ prod[p].pc = "checked"
  /\ mayRun(p)
  /\ LET item == prod[p].item IN
       /\ IF prod[p].fresh
          THEN /\ seen' = seen \cup {item.id}
               /\ q' = Append(q, item)
               /\ ret' = TRUE
               /\ accepted' = Append(accepted, item)
          ELSE /\ ret' = FALSE
               /\ UNCHANGED <<seen, q, accepted>>
       /\ call' = [op |-> "enqueue", arg |-> item]
       /\ prod' = [prod EXCEPT ![p] = [pc |-> "done", item |-> item, ok |-> ret']]
  /\ UNCHANGED delivered
  /\ UNCHANGED <<ivars, mvars, avars, evars, svars>>

Produce == \E p \in Producers : ProducerCheck(p) \/ ProducerAct(p)

\* the consumer's dequeue() between calls of the producers
Consume ==
  /\ mayRun(Consumer)
  /\ CallDequeue
  /\ UNCHANGED <<ivars, mvars, avars, evars, pvars, svars>>

ProducersInit == prod = [p \in Producers |-> [pc |-> "idle"]]

InitProducers ==
  QueueInit /\ IngestIdle /\ MetricsInit /\ AgentIdle /\ EvalIdle /\ ProducersInit /\ SdkIdle
NextProducers == Produce \/ Consume
SpecProducers == InitProducers /\ [][NextProducers]_vars

-----------------------------------------------------------------------------
(* Claims about concurrent producers, checked under SpecProducers *)

\* the producers whose call of enqueue with `id` has returned
Callers(id) == { p \in Producers : prod[p].pc = "done" /\ prod[p].item.id = id }

\* how often an item with `id` occurs in a sequence of items
Occurrences(items, id) == Cardinality({ i \in 1..Len(items) : items[i].id = id })

\* C19: the dedup check-and-insert of enqueue is atomic: with several
\* producers calling enqueue with the same id, in every interleaving exactly
\* one of the calls returns true and the item is queued exactly once (it is
\* in the queue or has been dequeued); two calls never both pass the
\* seen-check before either records the id.
C19_AtomicCheckAndInsert ==
  /\ \A id \in Ids :
       Callers(id) # {} =>
         /\ Cardinality({ p \in Callers(id) : prod[p].ok }) = 1
         /\ Occurrences(accepted, id) = 1
         /\ Occurrences(q, id) + Occurrences(delivered, id) = 1
  /\ \A p1, p2 \in Producers :
       (/\ p1 # p2
        /\ prod[p1].pc = "checked"
        /\ prod[p2].pc = "checked"
        /\ prod[p1].item.id = prod[p2].item.id)
       => ~(prod[p1].fresh /\ prod[p2].fresh)

\* all producers have called enqueue with one id and differing payloads,
\* and the accepted item has been dequeued since
C19_Witness ==
  /\ \E id \in Ids : Callers(id) = Producers
  /\ \E p1, p2 \in Producers : prod[p1].item.payload # prod[p2].item.payload
  /\ Len(delivered) = 1
  /\ call.op = "dequeue"

-----------------------------------------------------------------------------
(* The state invariant of the queue, checked under Spec *)

\* C23: in every state reachable through enqueue and dequeue the ids of the
\* queued items are pairwise distinct, every queued item's id is in seen, and
\* seen only grows: no operation removes an id from it.
C23_QueueInvariant ==
  /\ [](/\ \A i, j \in 1..Len(q) : q[i].id = q[j].id => i = j
        /\ IdsOf(q) \subseteq seen)
  /\ [][seen \subseteq seen']_vars

\* two items are queued and a third id, dequeued earlier, is still in seen
C23_Witness ==
  /\ Len(q) = 2
  /\ q[1].id # q[2].id
  /\ Cardinality(seen) = 3
  /\ Len(delivered) = 1

-----------------------------------------------------------------------------
(* The rule semantics of the eval harness, checked under SpecEval *)

\* rule has the form contains:X with the prefix in any case and X non-empty
HasContainsForm(rule) ==
  /\ Len(rule) > Len("contains:")
  /\ EqualsIgnoreCase(SubSeq(rule, 1, Len("contains:")), "contains:")

\* the X of a rule of that form
NeedleOf(rule) == SubSeq(rule, Len("contains:") + 1, Len(rule))

\* the result the rule semantics give: the form is contains:X and the
\* payload contains X as a literal substring
ContainsLiteral(rule, text) ==
  HasContainsForm(rule) /\ Includes(text, NeedleOf(rule))

\* the loop has just evaluated task number ti'
Evaluated == ti' = ti + 1

\* C26 (as stated): evaluateRule(rule, payload) is true exactly when rule has
\* the form contains:X (prefix in any case, X non-empty) and payload contains
\* X as a case-sensitive literal substring; a rule of another form evaluates
\* to false, so a task with such a rule passes if and only if its expect is
\* false.
C26_Original ==
  [][Evaluated =>
       LET t == tasks[ti'] IN
         /\ pass' = pass + 1 <=> ContainsLiteral(t.rule, payload) = t.expect
         /\ fail' = fail + 1 <=> ContainsLiteral(t.rule, payload) # t.expect
         /\ ~HasContainsForm(t.rule) => (pass' = pass + 1 <=> ~t.expect)]_vars

\* What holds: the same with X restricted to one line (no line terminator in
\* X); a rule whose X holds a line terminator evaluates to false like a rule
\* of another form.
C26_SingleLine ==
  [][Evaluated =>
       LET t == tasks[ti']
           oneLine == \A i \in 1..Len(NeedleOf(t.rule)) :
                        SubSeq(NeedleOf(t.rule), i, i) \notin LineTerminators
           result == oneLine /\ ContainsLiteral(t.rule, payload)
       IN /\ pass' = pass + 1 <=> result = t.expect
          /\ fail' = fail + 1 <=> result # t.expect
          /\ (~HasContainsForm(t.rule) \/ ~oneLine) => (pass' = pass + 1 <=> ~t.expect)]_vars

-----------------------------------------------------------------------------
(* The duplicate check of the legacy ingest, checked under SpecIngest *)

\* the local queue holds an event with the MRN and message type of ev whose
\* timestamp lies less than 60 seconds from that of ev
HeldWithinAMinute(ev) ==
  \E i \in 1..Len(eventQueue) :
    /\ eventQueue[i].data.patientMRN = ev.data.patientMRN
    /\ eventQueue[i].data.messageType = ev.data.messageType
    /\ GetTime(ev.timestamp) - GetTime(eventQueue[i].timestamp) < 60000
    /\ GetTime(eventQueue[i].timestamp) - GetTime(ev.timestamp) < 60000

\* C25: the legacy processHL7Message skips a message when the local queue
\* already holds an event with the same patientMRN and messageType whose
\* timestamp lies within 60 seconds of the new event's, and enqueues it
\* otherwise: the same message processed twice within one minute leaves the
\* queue length at 1, and processed 60 seconds or more later it is queued
\* again under a new id.
C25_DuplicateWindow ==
  /\ [][(variant = "legacy" /\ Len(runs') = Len(runs) + 1) =>
          LET ev == runs'[Len(runs')] IN
            IF HeldWithinAMinute(ev)
            THEN eventQueue' = eventQueue
            ELSE eventQueue' = Append(eventQueue, ev)]_vars
  /\ []((variant = "legacy" /\ Len(runs) = 2) =>
          IF GetTime(runs[2].timestamp) - GetTime(runs[1].timestamp) < 60000
          THEN Len(eventQueue) = 1 /\ eventQueue[1] = runs[1]
          ELSE /\ eventQueue = runs
               /\ eventQueue[1].id # eventQueue[2].id)

\* the same message has been processed again one millisecond before the
\* minute was over, and skipped
C25_Witness ==
  /\ variant = "legacy"
  /\ Len(runs) = 2
  /\ GetTime(runs[2].timestamp) - GetTime(runs[1].timestamp) = 59999
  /\ Len(eventQueue) = 1

-----------------------------------------------------------------------------
(* The pipeline: ingest and agent processes, the queue and the canonical file *)

MaxProcs == 3
MaxPuts == 3

\* payloads that `if (item.payload)` takes for absent: null, undefined, ""
Null == [null |-> TRUE]
FalsyPayloads == {Null, Undefined, Str("")}

\* what the callers of enqueue other than the ingest script put in the queue
PipelineItems ==
  { [id |-> id, type |-> "HL7v2", payload |-> pl] :
      id \in Ids,
      pl \in {SampleEvent, Ev("", "ADT^A01", "FACILITY_001")} \cup FalsyPayloads }

\* the sample file of an ingest run: the full sample, a message from a facility
\* off the whitelist, a message without MSH-5, MSH-9, MSH-10 and PID-3, the
\* full MSH segment alone, a message with an empty PID-3, and the empty file
PipelineRaws ==
  { JoinLines(<<FullMsh, FullPid, FullPv1>>, "\n"),
    "MSH|^~\\&|APP|FAC|FACILITY_003|RF|2023||ORU^R01|MSG2\nPID|1||MRN2",
    "MSH|^~\\&|APP|FAC||RF|2023\nPID|1",
    FullMsh,
    "MSH|^~\\&|APP|FAC||RF|2023|||MSG3\nPID|1|||",
    "" }

\* the process that is running: the last one started
Proc == Len(procs)

loaded_shared(old, initial) == old

\* a module-level const of a newly started process: its initializer's value,
\* not what another process held
loaded(old, initial) == initial

\* a Node process starts: the modules it loads start from their initial
\* state (queue.ts lines 3-4, part_003 line 2), whatever an earlier process
\* held; the file system stays as it is, and the clock has moved on
StartProcess ==
  /\ Len(procs) < MaxProcs
  /\ apc \in {"idle", "done", "crashed"}
  /\ procs' = Append(procs, {})
  /\ q' = loaded(q, <<>>)
  /\ seen' = loaded(seen, {})
  /\ ret' = Undefined
  /\ call' = [op |-> "none", arg |-> NoArg]
  /\ accepted' = <<>>
  /\ delivered' = <<>>
  /\ heap' = loaded(heap, <<EmptyMap>>)
  /\ held' = <<>>
  /\ mcall' = [op |-> "none"]
  /\ nInc' = EmptyMap
  /\ events' = <<>>
  /\ pos' = 0
  /\ apc' = "idle"
  /\ metrics' = [eventsProcessed |-> 0, policyViolations |-> 0,
                 successCount |-> 0, errorCount |-> 0]
  /\ outcomes' = <<>>
  /\ now' = now + DupWindowMs
  /\ UNCHANGED <<agent, handled>>
  /\ UNCHANGED <<variant, raw, nTicks, runs, file, eventQueue>>
  /\ UNCHANGED <<evars, pvars, svars>>

\* part_002 main() in the running process, on the sample file of the moment
PipelineIngest ==
  /\ apc = "idle"
  /\ "ingest" \notin procs[Proc]
  /\ Len(runs) < MaxRuns
  /\ \E hl7 \in PipelineRaws :
       LET normalized == parseHL7Message(hl7, now)
           item == [id |-> normalized.id, type |-> "HL7v2", payload |-> normalized]
       IN /\ raw' = hl7
          /\ CallEnqueue(item)
          /\ file' = <<normalized>>
          /\ runs' = Append(runs, normalized)
  /\ procs' = [procs EXCEPT ![Proc] = @ \cup {"ingest"}]
  /\ UNCHANGED <<variant, now, nTicks, eventQueue>>
  /\ UNCHANGED <<agent, events, pos, apc, metrics, outcomes, handled>>
  /\ UNCHANGED <<mvars, evars, pvars, svars>>

\* another caller of enqueue in the running process
PipelinePut ==
  /\ apc = "idle"
  /\ Len(accepted) < MaxPuts
  /\ \E item \in PipelineItems : CallEnqueue(item)
  /\ procs' = [procs EXCEPT ![Proc] = @ \cup {"put"}]
  /\ UNCHANGED <<agent, events, pos, apc, metrics, outcomes, handled>>
  /\ UNCHANGED <<ivars, mvars, evars, pvars, svars>>

\* JSON.parse(fs.readFileSync(CANONICAL_PATH)): every property of a
\* normalized event is a string, so the text JSON.stringify wrote parses
\* back to an equal object
readCanonical == file[1]

\* runOrchestrator up to gatherEvents' first test: if (size() > 0) the drain
\* loop is entered, otherwise the canonical file, if it exists, gives the
\* one event
GatherStart ==
  /\ apc = "idle"
  /\ "agent" \notin procs[Proc]
  /\ procs' = [procs EXCEPT ![Proc] = @ \cup {"agent"}]
  /\ CallSize
  /\ IF ret' > 0
     THEN /\ apc' = "drain"
          /\ events' = <<>>
     ELSE /\ apc' = "loop"
          /\ events' = IF file # <<>> THEN <<readCanonical>> ELSE <<>>
  /\ UNCHANGED <<agent, pos, metrics, outcomes, handled>>
  /\ UNCHANGED <<ivars, mvars, evars, pvars, svars>>

collect_all(collected, item) == Append(collected, item.payload)

\* if (item.payload) collected.push(asEvent(item.payload))
collect(collected, item) ==
  IF item.payload \in FalsyPayloads
  THEN collected
  ELSE Append(collected, item.payload)

\* one iteration of while (size() > 0): dequeue, and collect the payload
\* unless it is falsy; the loop ends, and gatherEvents returns, when the
\* queue is empty
GatherStep ==
  /\ apc = "drain"
  /\ CallDequeue
  /\ events' = collect(events, ret')
  /\ apc' = IF q' = <<>> THEN "loop" ELSE "drain"
  /\ UNCHANGED <<agent, pos, metrics, outcomes, handled, procs>>
  /\ UNCHANGED <<ivars, mvars, evars, pvars, svars>>

\* one process, started when the canonical file is absent or holds an event
PipelineStart(files) ==
  /\ QueueInit
  /\ MetricsInit
  /\ EvalIdle
  /\ ProducersIdle
  /\ SdkIdle
  /\ variant = "esm"
  /\ raw = ""
  /\ now = 0
  /\ nTicks = 0
  /\ runs = <<>>
  /\ file \in files
  /\ eventQueue = <<>>
  /\ agent = "esm"
  /\ events = <<>>
  /\ pos = 0
  /\ apc = "idle"
  /\ metrics = [eventsProcessed |-> 0, policyViolations |-> 0,
                successCount |-> 0, errorCount |-> 0]
  /\ outcomes = <<>>
  /\ handled = <<>>
  /\ procs = <<{}>>

\* ingest and agent runs in a succession of processes
PipelineInit == PipelineStart({<<>>})
NextPipeline ==
  \/ StartProcess
  \/ PipelineIngest
  \/ GatherStart
  \/ GatherStep
  \/ ProcessEvent
  \/ Finish
SpecPipeline == PipelineInit /\ [][NextPipeline]_vars

\* one process in which callers fill the queue before the orchestrator runs
DrainInit == PipelineStart({<<>>, <<SampleEvent>>})
NextDrain == PipelinePut \/ GatherStart \/ GatherStep \/ ProcessEvent \/ Finish
SpecDrain == DrainInit /\ [][NextDrain]_vars

-----------------------------------------------------------------------------
(* Claims about gatherEvents, checked under SpecDrain, and about the hand-off,
   checked under SpecPipeline *)

\* the payloads of the items of a sequence that are not falsy, in order
IsTruthyItem(item) == item.payload \notin FalsyPayloads
TruthyPayloads(items) ==
  LET kept == SelectSeq(items, IsTruthyItem)
  IN [i \in 1..Len(kept) |-> kept[i].payload]

\* gatherEvents of the running process has drained the queue and returned
Drained == apc \in {"loop", "done", "crashed"} /\ delivered # <<>>

\* C21: when gatherEvents starts with a non-empty queue its loop terminates
\* with size() = 0 (inside the loop the queue is not empty, every iteration
\* shortens it by one item, and the loop is left exactly when it is empty);
\* it returns the payloads of the dequeued items in FIFO order, does not read
\* the canonical file and leaves the dedup record untouched; an item with a
\* falsy payload is removed from the queue, is not returned and is counted
\* nowhere.
C21_QueueDrain ==
  /\ [](apc = "drain" =>
          /\ q # <<>>
          /\ delivered \o q = accepted
          /\ events = TruthyPayloads(delivered))
  /\ [](Drained =>
          /\ q = <<>>
          /\ delivered = accepted
          /\ events = TruthyPayloads(accepted)
          /\ seen = IdsOf(accepted)
          /\ metrics.eventsProcessed <= Len(events)
          /\ Len(outcomes) <= Len(events))
  /\ [][(apc = "drain" \/ apc' = "drain") => (seen' = seen /\ file' = file)]_vars
  /\ [][apc = "drain" =>
         /\ Len(q') = Len(q) - 1
         /\ apc' = "loop" <=> q' = <<>>
         /\ apc' = "drain" <=> q' # <<>>]_vars

\* a drain of three items has returned the first and the third payload, in
\* that order: the second was falsy; the canonical file held an event that
\* was not read
C21_Witness ==
  /\ Drained
  /\ apc = "done"
  /\ Len(delivered) = 3
  /\ delivered[2].payload \in FalsyPayloads
  /\ events = <<delivered[1].payload, delivered[3].payload>>
  /\ events[1] # events[2]
  /\ file # <<>>
  /\ metrics.eventsProcessed = 2


\* runOrchestrator has just called gatherEvents in the running process
GatherStarts == "agent" \in procs'[Proc] /\ "agent" \notin procs[Proc]

\* what the canonical file gives a reader
FileEvents == IF file = <<>> THEN <<>> ELSE <<file[1]>>

\* C22: the queue and its dedup record are per-process state: an agent
\* process in which nothing has been enqueued finds the queue empty, whatever
\* earlier processes enqueued, and falls back to the canonical file; the file
\* holds only the event of the most recent ingest run, and reading does not
\* consume it: only an ingest run changes it. (Hence the same event can be
\* processed by several agent runs, and the event of an earlier ingest run
\* can be processed by none.)
C22_HandOff ==
  /\ [](procs[Proc] \subseteq {"agent"} =>
          /\ q = <<>>
          /\ seen = {}
          /\ apc # "drain")
  /\ [](file = IF runs = <<>> THEN <<>> ELSE <<runs[Len(runs)]>>)
  /\ [][(GatherStarts /\ procs[Proc] = {}) =>
          /\ apc' = "loop"
          /\ events' = FileEvents
          /\ file' = file]_vars
  /\ [][file' # file => Len(runs') = Len(runs) + 1]_vars

\* after two ingest runs in processes of their own an agent process has
\* read the file for the second time: the second run's event has been
\* processed twice, the first run's never
C22_Witness ==
  /\ Len(procs) = 3
  /\ procs[1] = {"ingest"}
  /\ "ingest" \in procs[2]
  /\ procs[3] = {"agent"}
  /\ apc = "done"
  /\ runs[1] # runs[2]
  /\ handled = <<runs[2], runs[2]>>


\* the MSH fields of a raw message, and the message lacking MSH-5 and MSH-9
MshOf(hl7) == segment(SplitLines(Trim(hl7)), "MSH")
LacksFacilityAndType(hl7) ==
  OrDefault(MshOf(hl7), 4, "") = "" /\ OrDefault(MshOf(hl7), 8, "") = ""

\* C24: every event the ESM parseHL7Message produces has a non-empty
\* data.patientMRN, so patient-mrn-required is never the reported violator
\* for a normalized event; a message lacking MSH-5 and MSH-9 gets facility
\* FACILITY_001 and message type ADT^A01 and is allowed by the gate.
C24_NormalizedPassesMrn ==
  /\ \A i \in DOMAIN runs : runs[i].data.patientMRN # ""
  /\ \A i \in DOMAIN outcomes :
       LET event == events[i]
           o == outcomes[i]
       IN /\ o.kind \in {"allowed", "denied"}
          /\ o.kind = "denied" =>
               o.validation.result.metadata.violatedPolicy # "patient-mrn-required"
          /\ check("patient-mrn-required", event) = "pass"
          /\ LacksFacilityAndType(event.metadata.originalHL7) =>
               /\ event.facilityId = "FACILITY_001"
               /\ event.data.messageType = "ADT^A01"
               /\ o.kind = "allowed"

\* an agent process has read from the file, and allowed, the event of a
\* message without MSH-5, MSH-9 and PID-3
C24_Witness ==
  /\ procs[Proc] = {"agent"}
  /\ \E i \in DOMAIN outcomes :
       /\ LacksFacilityAndType(events[i].metadata.originalHL7)
       /\ events[i].data.patientMRN = "MRN_UNKNOWN"
       /\ outcomes[i].kind = "allowed"


-----------------------------------------------------------------------------
(* AIHealthSDK (src/events/queue.ts): initialize and processHealthData.
   SecurityManager, HealthDataProvider and AIProcessor are imported: each of
   their methods is a call that returns a promise which may resolve, reject
   or stay pending, and getSecurityLevel returns or throws. *)

\* the number of SDK calls a caller makes
MaxCalls == 2

\* the data passed to processHealthData, the values a collaborator's promise
\* resolves with, the reasons it rejects with, the security levels
HealthDatas == {"vitals", "labs"}
Values == {"v1", "v2"}
Reasons == {"denied", "timeout"}
Levels == {"hipaa"}

Methods == {"initialize", "processHealthData"}

\* the collaborator methods a call awaits, in the order of its statements
steps(method) ==
  IF method = "initialize"
  THEN <<"security.validateConfiguration", "provider.connect",
         "processor.initialize">>
  ELSE <<"security.validateHealthData", "provider.normalizeData",
         "processor.generateInsights">>

\* the argument of the k-th awaited method: initialize passes none,
\* processHealthData passes data, data and normalizedData
argument(c, k) ==
  IF c.method = "initialize" THEN ""
  ELSE IF k = 3 THEN c.normalized ELSE c.data

\* an entry of a call's history
Entry(c, k, ev, val) == [name |-> steps(c.method)[k], ev |-> ev, val |-> val]

\* `await this.x.m(...)`: the call invokes its k-th method and suspends
invoke(c, k) ==
  [c EXCEPT !.awaiting = k,
            !.log = Append(@, Entry(c, k, "start", argument(c, k)))]

\* the value an await expression of processHealthData is bound to
\* (normalizedData, insights); the other awaited values are dropped
bind(c, k, v) ==
  IF c.method = "initialize" \/ k = 1 THEN c
  ELSE IF k = 2 THEN [c EXCEPT !.normalized = v]
  ELSE [c EXCEPT !.insights = v]

\* what the history keeps of a resolved value: the value where it is bound
kept(c, k, v) == IF c.method = "initialize" \/ k = 1 THEN "" ELSE v

\* the statements after the last await: initialize returns; processHealthData
\* builds its result, calling this.security.getSecurityLevel()
return(c, level) ==
  IF c.method = "initialize" THEN [c EXCEPT !.awaiting = 0, !.status = "fulfilled"]
  ELSE IF level.throws
       THEN [c EXCEPT !.awaiting = 0, !.status = "rejected", !.error = level.val]
       ELSE [c EXCEPT !.awaiting = 0, !.status = "fulfilled", !.level = level.val]

\* the awaited promise resolved with v: the call resumes after the await
resume(c, v, level) ==
  LET k == c.awaiting
      settled == [c EXCEPT !.log = Append(@, Entry(c, k, "resolve", kept(c, k, v)))]
      bound == bind(settled, k, v)
  IN IF k < 3 THEN invoke(bound, k + 1) ELSE return(bound, level)

\* rejected as it would be if the call went on to its next statement
rejected_continues(c, r) ==
  LET k == c.awaiting
      settled == [c EXCEPT !.log = Append(@, Entry(c, k, "reject", r))]
  IN IF k < 3 THEN invoke(settled, k + 1)
     ELSE [settled EXCEPT !.awaiting = 0, !.status = "rejected", !.error = r]

\* the awaited promise rejected with r: await throws r, no statement of the
\* method catches it, the promise of the call rejects with r
rejected(c, r) ==
  [c EXCEPT !.log = Append(@, Entry(c, c.awaiting, "reject", r)),
            !.awaiting = 0, !.status = "rejected", !.error = r]

\* a call as it starts
NewCall(method, data) ==
  [method |-> method, data |-> data, awaiting |-> 0, status |-> "pending",
   error |-> "", normalized |-> "", insights |-> "", level |-> "", log |-> <<>>]

\* what getSecurityLevel() does: returns a level or throws
LevelOutcomes ==
  { [throws |-> FALSE, val |-> l] : l \in Levels } \cup
  { [throws |-> TRUE, val |-> r] : r \in Reasons }

\* sdk.initialize() or sdk.processHealthData(data) is called: it runs to its
\* first await
SdkCall ==
  /\ Len(sdk) < MaxCalls
  /\ \E method \in Methods, data \in HealthDatas \cup {""} :
       /\ (method = "initialize") <=> (data = "")
       /\ sdk' = Append(sdk, invoke(NewCall(method, data), 1))
  /\ UNCHANGED <<qvars, ivars, mvars, avars, evars, pvars>>

\* the promise a call awaits resolves
SdkResolve ==
  /\ \E i \in DOMAIN sdk, v \in Values, level \in LevelOutcomes :
       /\ sdk[i].status = "pending"
       /\ sdk' = [sdk EXCEPT ![i] = resume(@, v, level)]
  /\ UNCHANGED <<qvars, ivars, mvars, avars, evars, pvars>>

\* the promise a call awaits rejects
SdkReject ==
  /\ \E i \in DOMAIN sdk, r \in Reasons :
       /\ sdk[i].status = "pending"
       /\ sdk' = [sdk EXCEPT ![i] = rejected(@, r)]
  /\ UNCHANGED <<qvars, ivars, mvars, avars, evars, pvars>>

InitSdk ==
  QueueInit /\ IngestIdle /\ MetricsInit /\ AgentIdle /\ EvalIdle /\ ProducersIdle /\ SdkIdle
NextSdk == SdkCall \/ SdkResolve \/ SdkReject
SpecSdk == InitSdk /\ [][NextSdk]_vars

-----------------------------------------------------------------------------
(* Claims about the SDK, checked under SpecSdk *)

\* the order of the steps the claim names
InitializeOrder ==
  <<"security.validateConfiguration", "provider.connect", "processor.initialize">>
ProcessOrder ==
  <<"security.validateHealthData", "provider.normalizeData",
    "processor.generateInsights">>
OrderOf(c) == IF c.method = "initialize" THEN InitializeOrder ELSE ProcessOrder

\* the steps of a call that were started, in the order of their start
Started(c) ==
  LET starts == SelectSeq(c.log, LAMBDA e : e.ev = "start")
  IN [j \in DOMAIN starts |-> starts[j].name]

\* the history says that the step `name` has resolved before entry j
ResolvedBefore(c, name, j) ==
  \E h \in 1..(j - 1) : c.log[h].name = name /\ c.log[h].ev = "resolve"

\* C27: the steps of initialize() and of processHealthData() start in the
\* order security, provider, processor, each only after the previous one has
\* resolved; when a step rejects no later step of the call is started and
\* the call rejects with the reason of the step.
C27_CallOrdering ==
  \A i \in DOMAIN sdk :
    LET c == sdk[i]
        order == OrderOf(c)
    IN /\ Started(c) = SubSeq(order, 1, Len(Started(c)))
       /\ \A j \in DOMAIN c.log :
            /\ (c.log[j].ev = "start" /\ j > 1) =>
                 \A k \in 1..3 :
                   (order[k] = c.log[j].name /\ k > 1) =>
                     /\ ResolvedBefore(c, order[k - 1], j)
                     /\ c.log[j - 1] = [name |-> order[k - 1], ev |-> "resolve",
                                        val |-> c.log[j - 1].val]
            /\ c.log[j].ev = "reject" =>
                 /\ j = Len(c.log)
                 /\ c.log[j - 1].ev = "start"
                 /\ c.log[j - 1].name = c.log[j].name
                 /\ c.status = "rejected"
                 /\ c.error = c.log[j].val
       /\ c.status = "fulfilled" =>
            /\ Started(c) = order
            /\ \A k \in 1..3 : ResolvedBefore(c, order[k], Len(c.log) + 1)
       /\ (c.status = "rejected" /\ c.log[Len(c.log)].ev # "reject") =>
            /\ c.method = "processHealthData"
            /\ \A k \in 1..3 : ResolvedBefore(c, order[k], Len(c.log) + 1)

\* an initialize() whose security validation rejected, so that neither the
\* provider nor the processor was invoked, next to a processHealthData()
\* that ran its three steps and returned
C27_Witness ==
  /\ Len(sdk) = 2
  /\ sdk[1].method = "initialize"
  /\ sdk[1].status = "rejected"
  /\ sdk[1].error = "denied"
  /\ Started(sdk[1]) = <<"security.validateConfiguration">>
  /\ sdk[2].method = "processHealthData"
  /\ sdk[2].status = "fulfilled"
  /\ Started(sdk[2]) = ProcessOrder
  /\ sdk[2].normalized # sdk[2].insights

====
